---- MODULE Spec2Model ----
(***************************************************************************)
(* Model of the text-parsing and aggregation core of the account brief     *)
(* generator: the three response parsers of src/llm_researcher.py, the     *)
(* provider calls around them and enhance_brief_with_llm, the trigger      *)
(* extractor and pain-point resolver of src/researcher.py, and the         *)
(* versioned output file of main.py.                                       *)
(*                                                                         *)
(* Python str values are TLA+ strings; the str methods the code calls are  *)
(* operators computed character by character.  Python None is the empty    *)
(* tuple and a str value s held in a dict is the one-element tuple <<s>>,  *)
(* so that a field holding "" is distinct from an unset field.             *)
(***************************************************************************)
EXTENDS Integers, Sequences, FiniteSets, TLC

\* fs is the outputs/ tree: the text of every file, by path
VARIABLES pc, call, ret, fs

vars == <<pc, call, ret, fs>>

-----------------------------------------------------------------------------
(* Bounds of the checked inputs *)

MaxLines == 3

MaxSnippets == 6

\* the number of files under outputs/ beyond which no brief is generated
MaxFiles == 5

-----------------------------------------------------------------------------
(* Python values *)

None == <<>>

Str(s) == <<s>>

Val(v) == v[1]

\* truth value of an Optional[str] in `if x:`
Truthy(v) == v # None /\ Val(v) # ""

-----------------------------------------------------------------------------
(* Python str methods *)

Char(s, i) == SubSeq(s, i, i)

From(s, i) == SubSeq(s, i, Len(s))

UpperChars == "ABCDEFGHIJKLMNOPQRSTUVWXYZ"

LowerChars == "abcdefghijklmnopqrstuvwxyz"

ToLowerMap == [c \in {Char(UpperChars, i) : i \in 1..26} |->
                 Char(LowerChars, CHOOSE i \in 1..26 : Char(UpperChars, i) = c)]

ToUpperMap == [c \in {Char(LowerChars, i) : i \in 1..26} |->
                 Char(UpperChars, CHOOSE i \in 1..26 : Char(LowerChars, i) = c)]

RECURSIVE MapChars(_, _)
MapChars(m, s) ==
    IF s = "" THEN ""
    ELSE (IF Char(s, 1) \in DOMAIN m THEN m[Char(s, 1)] ELSE Char(s, 1))
         \o MapChars(m, From(s, 2))

Lower(s) == MapChars(ToLowerMap, s)

Upper(s) == MapChars(ToUpperMap, s)

\* whitespace that str.strip() removes from a line
Whitespace == {" ", "\t", "\r", "\f"}

RECURSIVE LStrip(_)
LStrip(s) ==
    IF s # "" /\ Char(s, 1) \in Whitespace THEN LStrip(From(s, 2)) ELSE s

RECURSIVE RStrip(_)
RStrip(s) ==
    IF s # "" /\ Char(s, Len(s)) \in Whitespace
    THEN RStrip(SubSeq(s, 1, Len(s) - 1)) ELSE s

Strip(s) == RStrip(LStrip(s))

StartsWith(s, p) == Len(s) >= Len(p) /\ SubSeq(s, 1, Len(p)) = p

\* the positions of s where an occurrence of sub starts
Occurrences(s, sub) ==
    {i \in 1..(Len(s) - Len(sub) + 1) : SubSeq(s, i, i + Len(sub) - 1) = sub}

\* s.find(sub) counted from 1: the first occurrence, 0 if there is none
Find(s, sub) ==
    LET at == Occurrences(s, sub) IN
    IF at = {} THEN 0 ELSE CHOOSE i \in at : \A j \in at : i <= j

\* s.replace(old, new): every non-overlapping occurrence, left to right
RECURSIVE Replace(_, _, _)
Replace(s, old, new) ==
    LET at == Find(s, old) IN
    IF at = 0 THEN s
    ELSE SubSeq(s, 1, at - 1) \o new \o Replace(From(s, at + Len(old)), old, new)

\* s.split(sep): a list of at least one piece
RECURSIVE Split(_, _)
Split(s, sep) ==
    LET at == Find(s, sep) IN
    IF at = 0 THEN <<s>>
    ELSE <<SubSeq(s, 1, at - 1)>> \o Split(From(s, at + Len(sep)), sep)

\* s.split(sep, 1): at most two pieces
Split1(s, sep) ==
    LET at == Find(s, sep) IN
    IF at = 0 THEN <<s>>
    ELSE <<SubSeq(s, 1, at - 1), From(s, at + Len(sep))>>

\* `sub in s`
Contains(s, sub) ==
    \E i \in 1..(Len(s) - Len(sub) + 1) : SubSeq(s, i, i + Len(sub) - 1) = sub

\* sep.join(list)
RECURSIVE Join(_, _)
Join(list, sep) ==
    IF list = <<>> THEN ""
    ELSE IF Len(list) = 1 THEN list[1]
    ELSE list[1] \o sep \o Join(Tail(list), sep)

\* the items of a list
Range(seq) == {seq[i] : i \in 1..Len(seq)}

\* dict item assignment d[k] = v
Put(d, k, v) == [x \in DOMAIN d \cup {k} |-> IF x = k THEN v ELSE d[x]]

-----------------------------------------------------------------------------
(* parse_llm_response *)

PersonaResult(content) ==
    [x \in {"name", "background", "focus", "raw_response"} |->
        IF x = "raw_response" THEN Str(content) ELSE None]

NameDenylist == {"not publicly available", "n/a", "unknown"}

\* body of the for loop: one line of the response
PersonaLine(result, rawline) ==
    LET line == Strip(rawline) IN
    IF StartsWith(line, "NAME:")
    THEN LET name == Strip(Replace(line, "NAME:", "")) IN
         IF name # "" /\ Lower(name) \notin NameDenylist
         THEN Put(result, "name", Str(name))
         ELSE result
    ELSE IF StartsWith(line, "BACKGROUND:")
    THEN Put(result, "background", Str(Strip(Replace(line, "BACKGROUND:", ""))))
    ELSE IF StartsWith(line, "FOCUS:")
    THEN Put(result, "focus", Str(Strip(Replace(line, "FOCUS:", ""))))
    ELSE result

RECURSIVE PersonaLoop(_, _)
PersonaLoop(result, lines) ==
    IF lines = <<>> THEN result
    ELSE PersonaLoop(PersonaLine(result, Head(lines)), Tail(lines))

parse_llm_response(content) ==
    PersonaLoop(PersonaResult(content), Split(content, "\n"))

-----------------------------------------------------------------------------
(* parse_company_context *)

CompanySchema ==
    { "description", "employees", "engineering_team", "funding", "revenue",
      "headquarters", "executives", "recent_news", "tech_stack",
      "differentiators" }

CompanyResult(content) ==
    [x \in CompanySchema \cup {"raw_response"} |->
        IF x = "raw_response" THEN Str(content) ELSE None]

\* "Save previous value" / "Save last value"
CompanySave(st) ==
    IF Truthy(st.current_key)
    THEN Put(st.result, Replace(Lower(Val(st.current_key)), " ", "_"),
             Str(Strip(Join(st.current_value, " "))))
    ELSE st.result

\* body of the for loop: one line of the response
CompanyLine(st, rawline) ==
    LET line == Strip(rawline) IN
    IF Contains(line, ":") /\ ~StartsWith(line, " ")
    THEN LET parts == Split1(line, ":") IN
         [ result        |-> CompanySave(st),
           current_key   |-> Str(Replace(Upper(parts[1]), " ", "_")),
           current_value |-> IF Len(parts) > 1 /\ Strip(parts[2]) # ""
                             THEN <<Strip(parts[2])>> ELSE <<>> ]
    ELSE IF Truthy(st.current_key) /\ line # ""
    THEN [st EXCEPT !.current_value = Append(@, line)]
    ELSE st

RECURSIVE CompanyLoop(_, _)
CompanyLoop(st, lines) ==
    IF lines = <<>> THEN st
    ELSE CompanyLoop(CompanyLine(st, Head(lines)), Tail(lines))

parse_company_context(content) ==
    CompanySave(CompanyLoop([ result        |-> CompanyResult(content),
                              current_key   |-> None,
                              current_value |-> <<>> ],
                            Split(content, "\n")))

-----------------------------------------------------------------------------
(* parse_email_sequence *)

EmailSchema ==
    { "email1_subject", "email1_body", "email2_subject", "email2_body",
      "email3_subject", "email3_body", "linkedin_message" }

EmailResult_EmptyStrings == [x \in EmailSchema |-> Str("")]

EmailResult == [x \in EmailSchema |-> None]

SubjectHeaders ==
    {"EMAIL1_SUBJECT:", "EMAIL2_SUBJECT:", "EMAIL3_SUBJECT:", "LINKEDIN_MESSAGE:"}

BodyHeaders == {"EMAIL1_BODY:", "EMAIL2_BODY:", "EMAIL3_BODY:"}

\* "Save previous value" / "Save last value"
EmailSave(st) ==
    IF Truthy(st.current_key)
    THEN Put(st.result, Val(st.current_key),
             Str(Strip(Join(st.current_value, "\n"))))
    ELSE st.result

\* body of the for loop: one line of the response
EmailLine(st, rawline) ==
    LET line     == Strip(rawline)
        parts    == Split1(line, ":")
        key_name == Replace(Lower(parts[1]), "_", "_")
    IN
    IF \E h \in SubjectHeaders : StartsWith(line, h)
    THEN [ result        |-> Put(EmailSave(st), key_name,
                                 Str(IF Len(parts) > 1 THEN Strip(parts[2]) ELSE "")),
           current_key   |-> Str(key_name),
           current_value |-> <<>> ]
    ELSE IF \E h \in BodyHeaders : StartsWith(line, h)
    THEN [ result        |-> EmailSave(st),
           current_key   |-> Str(key_name),
           current_value |-> IF Len(parts) > 1 /\ Strip(parts[2]) # ""
                             THEN <<Strip(parts[2])>> ELSE <<>> ]
    ELSE IF Truthy(st.current_key) /\ line # ""
    THEN [st EXCEPT !.current_value = Append(@, line)]
    ELSE st

RECURSIVE EmailLoop(_, _)
EmailLoop(st, lines) ==
    IF lines = <<>> THEN st
    ELSE EmailLoop(EmailLine(st, Head(lines)), Tail(lines))

\* s with its first occurrence of old replaced
ReplaceFirst(s, old, new) ==
    LET at == Find(s, old) IN
    IF at = 0 THEN s
    ELSE SubSeq(s, 1, at - 1) \o new \o From(s, at + Len(old))

ReplaceFirstName_FirstOnly(result, greeting) ==
    [key \in DOMAIN result |->
        IF Truthy(result[key]) /\ Contains(Val(result[key]), "[First Name]")
        THEN Str(ReplaceFirst(Val(result[key]), "[First Name]", greeting))
        ELSE result[key]]

\* "Replace [First Name] with actual greeting if we have it"
ReplaceFirstName(result, greeting) ==
    [key \in DOMAIN result |->
        IF Truthy(result[key]) /\ Contains(Val(result[key]), "[First Name]")
        THEN Str(Replace(Val(result[key]), "[First Name]", greeting))
        ELSE result[key]]

\* the result dict after "Save last value", before the substitution
EmailParsed(content) ==
    EmailSave(EmailLoop([ result        |-> EmailResult,
                          current_key   |-> None,
                          current_value |-> <<>> ],
                        Split(content, "\n")))

parse_email_sequence(content, greeting) ==
    ReplaceFirstName(EmailParsed(content), greeting)

-----------------------------------------------------------------------------
(* extract_why_now_triggers *)

\* list[:n]
FirstN(list, n) == SubSeq(list, 1, IF Len(list) < n THEN Len(list) ELSE n)

\* research_data.get('all_snippets', [])
GetSnippets(research_data) ==
    IF "all_snippets" \in DOMAIN research_data
    THEN research_data["all_snippets"] ELSE <<>>

funding_keywords ==
    <<"funding", "raised", "investment", "series", "funded", "million",
      "billion", "$">>

hiring_keywords ==
    <<"hiring", "expanding", "growing", "team", "openings", "jobs", "recruiting">>

launch_keywords ==
    <<"launch", "partnership", "announces", "introduces", "new product", "release">>

\* any(keyword in combined_text for keyword in keywords)
AnyKeyword(keywords, combined_text) ==
    \E i \in 1..Len(keywords) : Contains(combined_text, keywords[i])

FundingTrigger(company) ==
    company \o " has recent funding activity indicating growth and investment in new solutions"

HiringTrigger(company) ==
    "Active hiring and team expansion at " \o company
    \o " suggests scaling and infrastructure needs"

LaunchTrigger(company) ==
    "Recent product launches or partnerships at " \o company
    \o " indicate active development"

FallbackTriggers(company) ==
    << "Research " \o company
         \o "'s recent funding rounds, hiring activity, or expansion plans",
       "Identify recent product launches, partnerships, or strategic initiatives at "
         \o company,
       "Review " \o company
         \o "'s growth trajectory and infrastructure scaling needs" >>

CombinedText_AllSnippets(snippets) == Lower(Join(snippets, " "))

CombinedText(snippets) == Lower(Join(FirstN(snippets, 5), " "))

DetectedTriggers_HiringFirst(company, snippets) ==
    IF snippets # <<>>
    THEN LET combined_text == CombinedText(snippets) IN
         (IF AnyKeyword(hiring_keywords, combined_text)
          THEN <<HiringTrigger(company)>> ELSE <<>>)
         \o (IF AnyKeyword(funding_keywords, combined_text)
             THEN <<FundingTrigger(company)>> ELSE <<>>)
         \o (IF AnyKeyword(launch_keywords, combined_text)
             THEN <<LaunchTrigger(company)>> ELSE <<>>)
    ELSE <<>>

\* the triggers list after the `if snippets:` block
DetectedTriggers(company, snippets) ==
    IF snippets # <<>>
    THEN LET combined_text == CombinedText(snippets) IN
         (IF AnyKeyword(funding_keywords, combined_text)
          THEN <<FundingTrigger(company)>> ELSE <<>>)
         \o (IF AnyKeyword(hiring_keywords, combined_text)
             THEN <<HiringTrigger(company)>> ELSE <<>>)
         \o (IF AnyKeyword(launch_keywords, combined_text)
             THEN <<LaunchTrigger(company)>> ELSE <<>>)
    ELSE <<>>

extract_why_now_triggers_NoFallback(company, research_data) ==
    FirstN(DetectedTriggers(company, GetSnippets(research_data)), 3)

extract_why_now_triggers(company, research_data) ==
    LET triggers == DetectedTriggers(company, GetSnippets(research_data)) IN
    FirstN(IF triggers = <<>> THEN FallbackTriggers(company) ELSE triggers, 3)

-----------------------------------------------------------------------------
(* get_persona_pain_points *)

PainPointKeys_Reordered == <<"vp engineering", "vp sales", "cto">>

\* keys of pain_points_map in insertion order
PainPointKeys == <<"cto", "vp engineering", "vp sales">>

pain_points_map ==
    [ k \in {"cto", "vp engineering", "vp sales"} |->
        IF k = "cto" THEN
          << "Balancing technical debt with innovation and new feature development",
             "Scaling infrastructure and engineering teams while maintaining code quality",
             "Ensuring security and compliance without slowing down development velocity",
             "Managing vendor relationships and tool sprawl across engineering stack",
             "Attracting and retaining top engineering talent in competitive market" >>
        ELSE IF k = "vp engineering" THEN
          << "Optimizing team productivity and delivery velocity",
             "Managing technical debt and architectural decisions at scale",
             "Balancing feature development with infrastructure improvements",
             "Cross-team collaboration and communication challenges",
             "Tool and process standardization across engineering teams" >>
        ELSE
          << "Accelerating sales cycle and improving win rates",
             "Forecasting accuracy and pipeline management",
             "Sales team productivity and quota attainment",
             "Competitive differentiation and positioning",
             "Sales and marketing alignment" >> ]

GenericPainPoints_Lowercased(persona) ==
    << "Common " \o Lower(persona) \o " challenges around strategic decision-making",
       Lower(persona) \o " pain points related to team and resource management",
       "Budget and ROI concerns facing " \o Lower(persona) \o "s",
       Lower(persona) \o " frustrations with current tools and processes",
       "Business impact of unresolved challenges for " \o Lower(persona) \o " role" >>

\* "Default generic pain points"
GenericPainPoints(persona) ==
    << "Common " \o persona \o " challenges around strategic decision-making",
       persona \o " pain points related to team and resource management",
       "Budget and ROI concerns facing " \o persona \o "s",
       persona \o " frustrations with current tools and processes",
       "Business impact of unresolved challenges for " \o persona \o " role" >>

\* the for loop over pain_points_map.items(), from the i-th key on
RECURSIVE MatchFrom(_, _, _)
MatchFrom(i, persona_lower, persona) ==
    IF i > Len(PainPointKeys) THEN GenericPainPoints(persona)
    ELSE IF Contains(persona_lower, PainPointKeys[i])
    THEN pain_points_map[PainPointKeys[i]]
    ELSE MatchFrom(i + 1, persona_lower, persona)

get_persona_pain_points(persona) == MatchFrom(1, Lower(persona), persona)

-----------------------------------------------------------------------------
(* The provider calls.  The environment of a call is the provider name,    *)
(* whether get_openai_client / get_anthropic_client returns a client, and  *)
(* the reply of the API: an exception, or a message whose content is a str *)
(* or None.                                                                *)

Raise(msg) == [kind |-> "raise", msg |-> msg]

Content(c) == [kind |-> "content", content |-> c]

\* an exception leaving a function
Exception(msg) == [exception |-> msg]

IsException(v) == "exception" \in DOMAIN v

\* the statements of a try body: the API call, then parse(content);
\* content.split raises when the content is None
TryBody(reply, parsed) ==
    IF reply.kind = "raise" THEN Exception(reply.msg)
    ELSE IF reply.content = None
    THEN Exception("'NoneType' object has no attribute 'split'")
    ELSE parsed

TryExcept_Propagates(body, handler) == body

\* try: body  except Exception as e: return handler built from str(e)
TryExcept(body, handler) ==
    IF IsException(body) THEN Put(handler, "error", Str(Val(handler["error"]) \o body.exception))
    ELSE body

\* the text of a reply, "" when it has none
TextOf(reply) ==
    IF reply.kind = "content" /\ reply.content # None THEN Val(reply.content) ELSE ""

research_persona_with_llm(provider, client, reply) ==
    IF provider = "openai"
    THEN IF ~client
         THEN [ name |-> None,
                error |-> Str("OpenAI API key not found. Set OPENAI_API_KEY environment variable.") ]
         ELSE TryExcept(TryBody(reply, parse_llm_response(TextOf(reply))),
                        [name |-> None, error |-> Str("OpenAI API error: ")])
    ELSE IF provider = "anthropic"
    THEN IF ~client
         THEN [ name |-> None,
                error |-> Str("Anthropic API key not found. Set ANTHROPIC_API_KEY environment variable.") ]
         ELSE TryExcept(TryBody(reply, parse_llm_response(TextOf(reply))),
                        [name |-> None, error |-> Str("Anthropic API error: ")])
    ELSE [name |-> None, error |-> Str("Unknown provider: " \o provider)]

research_company_context_with_llm(provider, client, reply) ==
    IF provider = "openai"
    THEN IF ~client
         THEN [error |-> Str("OpenAI API key not found")]
         ELSE TryExcept(TryBody(reply, parse_company_context(TextOf(reply))),
                        [error |-> Str("OpenAI API error: ")])
    ELSE IF provider = "anthropic"
    THEN IF ~client
         THEN [error |-> Str("Anthropic API key not found")]
         ELSE TryExcept(TryBody(reply, parse_company_context(TextOf(reply))),
                        [error |-> Str("Anthropic API error: ")])
    ELSE [error |-> Str("Unknown provider: " \o provider)]

\* greeting = persona_name if persona_name else "[First Name]"
Greeting(persona_name) ==
    IF Truthy(persona_name) THEN Val(persona_name) ELSE "[First Name]"

generate_email_sequence_with_llm(persona_name, provider, client, reply) ==
    LET greeting == Greeting(persona_name) IN
    IF provider = "openai"
    THEN IF ~client
         THEN [error |-> Str("OpenAI API key not found")]
         ELSE TryExcept(TryBody(reply, parse_email_sequence(TextOf(reply), greeting)),
                        [error |-> Str("OpenAI API error: ")])
    ELSE IF provider = "anthropic"
    THEN IF ~client
         THEN [error |-> Str("Anthropic API key not found")]
         ELSE TryExcept(TryBody(reply, parse_email_sequence(TextOf(reply), greeting)),
                        [error |-> Str("Anthropic API error: ")])
    ELSE [error |-> Str("Unknown provider: " \o provider)]

-----------------------------------------------------------------------------
(* enhance_brief_with_llm *)

\* d.get(k)
Get(d, k) == IF k \in DOMAIN d THEN d[k] ELSE None

EnhancedInit ==
    [ k \in { "persona_name", "persona_background", "persona_focus",
              "company_description", "company_employees",
              "company_engineering_team", "company_funding", "company_revenue",
              "company_headquarters", "company_executives",
              "company_recent_news", "company_tech_stack",
              "company_differentiators" } |-> None ]

\* the name taken from one line of the executives list: "Name, Title" or
\* "Title: Name"; persona_name stays as it is when the line has neither
NameFromLine(persona_name, line) ==
    IF Len(Split(line, ",")) > 1 THEN Str(Strip(Split(line, ",")[1]))
    ELSE IF Len(Split(line, ":")) > 1 THEN Str(Strip(Split(line, ":")[2]))
    ELSE persona_name

\* the for loop over executives_str.split('\n'), left at the first line
\* that mentions the persona
RECURSIVE ExecutivesLoop(_, _, _)
ExecutivesLoop(persona_name, lines, persona_lower) ==
    IF lines = <<>> THEN persona_name
    ELSE IF Contains(Lower(Head(lines)), persona_lower)
    THEN NameFromLine(persona_name, Head(lines))
    ELSE ExecutivesLoop(persona_name, Tail(lines), persona_lower)

\* the block under `if "error" not in company_context`
CopyCompanyContext(enhanced, company_context, persona) ==
    LET copied ==
            [ k \in DOMAIN enhanced |->
                IF StartsWith(k, "company_")
                THEN Get(company_context, From(k, Len("company_") + 1))
                ELSE enhanced[k] ]
        executives_str == copied["company_executives"]
    IN
    IF Truthy(executives_str)
    THEN Put(copied, "persona_name",
             ExecutivesLoop(copied["persona_name"],
                            Split(Val(executives_str), "\n"), Lower(persona)))
    ELSE copied

PersonaFallback_Always(enhanced, persona_info) ==
    [ enhanced EXCEPT
        !["persona_name"] = IF Truthy(Get(persona_info, "name"))
                            THEN Get(persona_info, "name") ELSE @,
        !["persona_background"] = Get(persona_info, "background"),
        !["persona_focus"] = Get(persona_info, "focus") ]

\* "Also try direct persona research as fallback"
PersonaFallback(enhanced, persona_info) ==
    IF ~Truthy(enhanced["persona_name"])
    THEN [ enhanced EXCEPT
             !["persona_name"] = IF Truthy(Get(persona_info, "name"))
                                 THEN Get(persona_info, "name") ELSE @,
             !["persona_background"] = Get(persona_info, "background"),
             !["persona_focus"] = Get(persona_info, "focus") ]
    ELSE enhanced

enhance_brief_with_llm(persona, use_persona_research, provider, client, company_reply, persona_reply) ==
    IF use_persona_research
    THEN LET company_context ==
                 research_company_context_with_llm(provider, client, company_reply)
         IN PersonaFallback(
                IF "error" \notin DOMAIN company_context
                THEN CopyCompanyContext(EnhancedInit, company_context, persona)
                ELSE EnhancedInit,
                research_persona_with_llm(provider, client, persona_reply))
    ELSE EnhancedInit

-----------------------------------------------------------------------------
(* main.py: the versioned output file *)

Digits == "0123456789"

DigitChars == {Char(Digits, i) : i \in 1..10}

\* \w of a Python regular expression, for ASCII text
WordChars ==
    {Char(UpperChars, i) : i \in 1..26} \cup {Char(LowerChars, i) : i \in 1..26}
    \cup DigitChars \cup {"_"}

\* \s of a Python regular expression
ReWhitespace == Whitespace \cup {"\n"}

\* re.sub(r'[^\w\s-]', '', s)
RECURSIVE RemoveSpecial(_)
RemoveSpecial(s) ==
    IF s = "" THEN ""
    ELSE (IF Char(s, 1) \in WordChars \cup ReWhitespace \cup {"-"}
          THEN Char(s, 1) ELSE "")
         \o RemoveSpecial(From(s, 2))

RECURSIVE DropRun(_)
DropRun(s) ==
    IF s # "" /\ Char(s, 1) \in ReWhitespace \cup {"-"}
    THEN DropRun(From(s, 2)) ELSE s

\* re.sub(r'[-\s]+', '-', s)
RECURSIVE CollapseRuns(_)
CollapseRuns(s) ==
    IF s = "" THEN ""
    ELSE IF Char(s, 1) \in ReWhitespace \cup {"-"}
    THEN "-" \o CollapseRuns(DropRun(s))
    ELSE Char(s, 1) \o CollapseRuns(From(s, 2))

\* s.strip('-')
RECURSIVE StripHyphens(_)
StripHyphens(s) ==
    IF s # "" /\ Char(s, 1) = "-" THEN StripHyphens(From(s, 2))
    ELSE IF s # "" /\ Char(s, Len(s)) = "-"
    THEN StripHyphens(SubSeq(s, 1, Len(s) - 1))
    ELSE s

sanitize_filename(company) ==
    LET sanitized == StripHyphens(CollapseRuns(RemoveSpecial(company))) IN
    IF sanitized # "" THEN sanitized ELSE "company"

\* the decimal text of n >= 0, as an f-string writes it
RECURSIVE IntToStr(_)
IntToStr(n) ==
    IF n < 10 THEN Char(Digits, n + 1)
    ELSE IntToStr(n \div 10) \o Char(Digits, (n % 10) + 1)

\* int(s) of a string of digits
RECURSIVE ParseInt(_)
ParseInt(s) ==
    IF s = "" THEN 0
    ELSE 10 * ParseInt(SubSeq(s, 1, Len(s) - 1))
         + (CHOOSE d \in 0..9 : Char(Digits, d + 1) = Char(s, Len(s)))

EndsWith(s, p) == Len(s) >= Len(p) /\ SubSeq(s, Len(s) - Len(p) + 1, Len(s)) = p

\* company_dir.glob(f"{company_name}-v*.md") selects the file name
GlobMatch(name, company_name) ==
    /\ Len(name) >= Len(company_name) + Len("-v") + Len(".md")
    /\ StartsWith(name, company_name \o "-v")
    /\ EndsWith(name, ".md")

\* the longest run of digits s starts with
RECURSIVE LeadingDigits(_)
LeadingDigits(s) ==
    IF s # "" /\ Char(s, 1) \in DigitChars
    THEN Char(s, 1) \o LeadingDigits(From(s, 2)) ELSE ""

\* group 1 of version_pattern.match(name), "" when the name does not match:
\* match() anchors the pattern at the start of the name only
VersionMatch(name, company_name) ==
    LET rest == From(name, Len(company_name) + Len("-v") + 1)
        group == LeadingDigits(rest)
    IN IF /\ StartsWith(name, company_name \o "-v")
          /\ group # ""
          /\ StartsWith(From(rest, Len(group) + 1), ".md")
       THEN group ELSE ""

SetMax(S) == CHOOSE n \in S : \A m \in S : m <= n

\* the versions list of get_next_version
Versions(names, company_name) ==
    { ParseInt(VersionMatch(name, company_name)) :
        name \in { f \in names : /\ GlobMatch(f, company_name)
                                 /\ VersionMatch(f, company_name) # "" } }

get_next_version_Count(company_dir, company_name) ==
    IF ~company_dir.exists THEN 1
    ELSE IF {f \in company_dir.names : GlobMatch(f, company_name)} = {} THEN 1
    ELSE IF Versions(company_dir.names, company_name) = {} THEN 1
    ELSE Cardinality(Versions(company_dir.names, company_name)) + 1

\* company_dir is the directory as the call finds it: whether it exists and
\* the names of its files
get_next_version(company_dir, company_name) ==
    IF ~company_dir.exists THEN 1
    ELSE IF {f \in company_dir.names : GlobMatch(f, company_name)} = {} THEN 1
    ELSE IF Versions(company_dir.names, company_name) = {} THEN 1
    ELSE SetMax(Versions(company_dir.names, company_name)) + 1

\* the names of the files of directory dir in the tree files
Listing(files, dir) ==
    { From(p, Len(dir) + 2) : p \in {q \in DOMAIN files : StartsWith(q, dir \o "/")} }

\* the two mkdir(exist_ok=True) calls leave every file as it is, and the
\* company directory exists when get_next_version reads it
get_output_path(files, company) ==
    LET sanitized_company == sanitize_filename(company)
        company_dir == "outputs/" \o sanitized_company
        version == get_next_version(
                       [exists |-> TRUE, names |-> Listing(files, company_dir)],
                       sanitized_company)
    IN company_dir \o "/" \o sanitized_company \o "-v" \o IntToStr(version) \o ".md"

\* output_file.write_text(brief)
WriteText(files, path, text) == Put(files, path, text)

-----------------------------------------------------------------------------
(* Inputs *)

\* all lists over pool of length 0..n
Lists(pool, n) == UNION {[1..k -> pool] : k \in 0..n}

\* the labels of a schema in the order the prompt lists them
PersonaFields == <<"name", "background", "focus">>

CompanyFields ==
    << "description", "employees", "engineering_team", "funding", "revenue",
       "headquarters", "executives", "recent_news", "tech_stack",
       "differentiators" >>

EmailFields ==
    << "email1_subject", "email1_body", "email2_subject", "email2_body",
       "email3_subject", "email3_body", "linkedin_message" >>

\* a response in the layout the prompt asks for: LABEL: value, one per line
RECURSIVE Serialize(_, _)
Serialize(rec, fields) ==
    IF fields = <<>> THEN ""
    ELSE Upper(Head(fields)) \o ": " \o rec[Head(fields)]
         \o (IF Len(fields) > 1 THEN "\n" ELSE "")
         \o Serialize(rec, Tail(fields))

\* fully-populated records: every field holds its first or its second value
Populated(fields, varied, first, second) ==
    { [f \in Range(fields) |-> IF f \in S THEN second ELSE first] :
        S \in SUBSET varied }

PersonaRecords ==
    Populated(PersonaFields, {"name", "background", "focus"},
              "Jane Doe", "Founder: twice")

CompanyRecords ==
    Populated(CompanyFields, {"description", "funding", "executives"},
              "Acme builds rockets", "Series C: $40M")

EmailRecords ==
    Populated(EmailFields, {"email1_subject", "email1_body", "linkedin_message"},
              "Quick idea", "Hi Sam,\nSaw the launch.")

SerializedPersona == [rec \in PersonaRecords |-> Serialize(rec, PersonaFields)]

SerializedCompany == [rec \in CompanyRecords |-> Serialize(rec, CompanyFields)]

SerializedEmail == [rec \in EmailRecords |-> Serialize(rec, EmailFields)]

PersonaLinePool ==
    { "NAME: Jane Doe", "NAME: Bob Lee", "  NAME:  Unknown ", "NAME: N/A",
      "BACKGROUND: Ex-Google", "FOCUS: AI", "FOCUS: Cloud", "notes", "" }

PersonaTexts ==
    {Join(ls, "\n") : ls \in Lists(PersonaLinePool, MaxLines)}
    \cup {SerializedPersona[rec] : rec \in PersonaRecords}

CompanyLinePool ==
    { "DESCRIPTION: Acme builds rockets", "FUNDING: Series B",
      "FUNDING: Series C: $40M", "funding: seed", "EXECUTIVES:",
      "CTO: Jane Doe", "  and more", "  HQ: Austin", ": orphan", "" }

CompanyTexts ==
    {Join(ls, "\n") : ls \in Lists(CompanyLinePool, MaxLines)}
    \cup {SerializedCompany[rec] : rec \in CompanyRecords}

EmailLinePool ==
    { "EMAIL1_SUBJECT: Quick idea", "EMAIL1_SUBJECT: Second idea",
      "EMAIL1_BODY: Hi [First Name], yes [First Name]", "EMAIL1_BODY: Hello",
      "LINKEDIN_MESSAGE: Congrats", "Saw the launch, [First Name].",
      "Note: see below", "" }

EmailTexts ==
    {Join(ls, "\n") : ls \in Lists(EmailLinePool, MaxLines)}
    \cup {SerializedEmail[rec] : rec \in EmailRecords}

Greetings == {"[First Name]", "Jordan"}

Companies == {"Acme", "Initech"}

SnippetPool == {"Acme raised $10M Series A", "Now HIRING engineers", "new", "product"}

\* research_data without the all_snippets key, or with a list of snippets
ResearchData ==
    {<<>>} \cup {[all_snippets |-> l] : l \in Lists(SnippetPool, MaxSnippets)}

Providers == {"openai", "anthropic", "gemini"}

\* replies of the API to the three prompts
PersonaReplies ==
    { Raise("rate limit"), Content(None),
      Content(Str("NAME: Sam Roe\nBACKGROUND: Ex-Google\nFOCUS: AI")),
      Content(Str("NAME: Not publicly available\nFOCUS: Cloud")) }

CompanyReplies ==
    { Raise("rate limit"), Content(None),
      Content(Str("DESCRIPTION: Acme builds rockets\nFUNDING: Series B")),
      Content(Str("EXECUTIVES: Bob Lee, CTO")),
      Content(Str("EXECUTIVES: CTO: Bob Lee")),
      Content(Str("EXECUTIVES: Jane Doe, CEO\nBob Lee, CTO\nAnn Wu, VP Engineering")),
      Content(Str("EXECUTIVES: , CTO")),
      Content(Str("EXECUTIVES: the cto is not public")),
      Content(Str("DESCRIPTION: Acme builds rockets\nError: no executives found")) }

EmailReplies ==
    { Raise("rate limit"), Content(None),
      Content(Str("EMAIL1_SUBJECT: Quick idea\nEMAIL1_BODY: Hi [First Name],\nSaw the launch.")),
      Content(Str("LINKEDIN_MESSAGE:\nCongrats, [First Name]")) }

PersonaNames == {None, Str(""), Str("Jordan")}

RequestedPersonas == {"CTO", "VP Engineering"}

\* --company arguments; the first two name the same directory, the last
\* sanitizes to nothing
CompanyArgs == {"Acme Corp", " Acme - Corp!", "Initech, Inc.", "???"}

\* what render_account_brief gives main: a brief, or an exception
Briefs ==
    { Raise("research failed"),
      Content(Str("# Account Brief: A")), Content(Str("# Account Brief: B")) }

\* briefs of earlier runs that may still be under outputs/
EarlierBriefs ==
    { "outputs/Acme-Corp/Acme-Corp-v1.md", "outputs/Acme-Corp/Acme-Corp-v3.md",
      "outputs/Acme-Corp/Acme-Corp-v9.md", "outputs/Acme-Corp/Acme-Corp-v10.md" }

PersonaLabels ==
    { "CTO", "cto", "Director of Engineering", "VP Engineering", "VP Sales",
      "VP Engineering and acting CTO", "VP Sales, formerly CTO",
      "VP Sales / VP Engineering", "Senior Something Else", "Vp  Engineering", "" }

-----------------------------------------------------------------------------
(* Operations: one call of one function, from its arguments to its return *)

NoFiles == [p \in {} |-> ""]

Init ==
    /\ pc = "idle"
    /\ call = [fn |-> "none"]
    /\ ret = None
    /\ fs = NoFiles

ParseLlmResponse ==
    /\ pc = "idle"
    /\ \E content \in PersonaTexts :
          /\ call' = [fn |-> "parse_llm_response", content |-> content]
          /\ ret' = parse_llm_response(content)
    /\ pc' = "returned"
    /\ UNCHANGED fs

ParseCompanyContext ==
    /\ pc = "idle"
    /\ \E content \in CompanyTexts :
          /\ call' = [fn |-> "parse_company_context", content |-> content]
          /\ ret' = parse_company_context(content)
    /\ pc' = "returned"
    /\ UNCHANGED fs

ParseEmailSequence ==
    /\ pc = "idle"
    /\ \E content \in EmailTexts, greeting \in Greetings :
          /\ call' = [fn |-> "parse_email_sequence", content |-> content,
                      greeting |-> greeting]
          /\ ret' = parse_email_sequence(content, greeting)
    /\ pc' = "returned"
    /\ UNCHANGED fs

ExtractWhyNowTriggers ==
    /\ pc = "idle"
    /\ \E company \in Companies, research_data \in ResearchData :
          /\ call' = [fn |-> "extract_why_now_triggers", company |-> company,
                      research_data |-> research_data]
          /\ ret' = extract_why_now_triggers(company, research_data)
    /\ pc' = "returned"
    /\ UNCHANGED fs

GetPersonaPainPoints ==
    /\ pc = "idle"
    /\ \E persona \in PersonaLabels :
          /\ call' = [fn |-> "get_persona_pain_points", persona |-> persona]
          /\ ret' = get_persona_pain_points(persona)
    /\ pc' = "returned"
    /\ UNCHANGED fs

\* a call of a function that may raise ends at "raised", else at "returned"
After(result) == IF IsException(result) THEN "raised" ELSE "returned"

ResearchPersonaWithLlm ==
    /\ pc = "idle"
    /\ \E provider \in Providers, client \in BOOLEAN, reply \in PersonaReplies :
          /\ call' = [fn |-> "research_persona_with_llm", provider |-> provider,
                      client |-> client, reply |-> reply]
          /\ ret' = research_persona_with_llm(provider, client, reply)
    /\ pc' = After(ret')
    /\ UNCHANGED fs

ResearchCompanyContextWithLlm ==
    /\ pc = "idle"
    /\ \E provider \in Providers, client \in BOOLEAN, reply \in CompanyReplies :
          /\ call' = [fn |-> "research_company_context_with_llm",
                      provider |-> provider, client |-> client, reply |-> reply]
          /\ ret' = research_company_context_with_llm(provider, client, reply)
    /\ pc' = After(ret')
    /\ UNCHANGED fs

GenerateEmailSequenceWithLlm ==
    /\ pc = "idle"
    /\ \E persona_name \in PersonaNames, provider \in Providers,
          client \in BOOLEAN, reply \in EmailReplies :
          /\ call' = [fn |-> "generate_email_sequence_with_llm",
                      persona_name |-> persona_name, provider |-> provider,
                      client |-> client, reply |-> reply]
          /\ ret' = generate_email_sequence_with_llm(persona_name, provider,
                                                     client, reply)
    /\ pc' = After(ret')
    /\ UNCHANGED fs

EnhanceBriefWithLlm ==
    /\ pc = "idle"
    /\ \E persona \in RequestedPersonas, use_persona_research \in BOOLEAN,
          provider \in Providers, client \in BOOLEAN,
          company_reply \in CompanyReplies, persona_reply \in PersonaReplies :
          /\ call' = [fn |-> "enhance_brief_with_llm", persona |-> persona,
                      use_persona_research |-> use_persona_research,
                      provider |-> provider, client |-> client,
                      company_reply |-> company_reply,
                      persona_reply |-> persona_reply]
          /\ ret' = enhance_brief_with_llm(persona, use_persona_research,
                                           provider, client, company_reply,
                                           persona_reply)
    /\ pc' = After(ret')
    /\ UNCHANGED fs

Next ==
    \/ ParseLlmResponse
    \/ ParseCompanyContext
    \/ ParseEmailSequence
    \/ ExtractWhyNowTriggers
    \/ GetPersonaPainPoints
    \/ ResearchPersonaWithLlm
    \/ ResearchCompanyContextWithLlm
    \/ GenerateEmailSequenceWithLlm
    \/ EnhanceBriefWithLlm

Spec == Init /\ [][Next]_vars

\* one run of main.py: render the brief, choose the output path, write the
\* file; any exception ends the run with exit status 1 and nothing written
Main ==
    /\ pc \in {"idle", "returned", "exited"}
    /\ Cardinality(DOMAIN fs) < MaxFiles
    /\ \E company \in CompanyArgs, brief \in Briefs :
          /\ call' = [fn |-> "main", company |-> company, brief |-> brief]
          /\ IF brief.kind = "raise"
             THEN /\ fs' = fs
                  /\ ret' = None
                  /\ pc' = "exited"
             ELSE LET output_file == get_output_path(fs, company) IN
                  /\ fs' = WriteText(fs, output_file, Val(brief.content))
                  /\ ret' = Str(output_file)
                  /\ pc' = "returned"

\* runs of main.py over an outputs/ tree that holds briefs of earlier runs
InitFiles ==
    /\ pc = "idle"
    /\ call = [fn |-> "none"]
    /\ ret = None
    /\ fs \in {[p \in kept |-> "# Account Brief: earlier"] : kept \in SUBSET EarlierBriefs}

NextFiles == Main

SpecFiles == InitFiles /\ [][NextFiles]_vars

-----------------------------------------------------------------------------
(* Vocabulary of the properties *)

Parsers == {"parse_llm_response", "parse_company_context", "parse_email_sequence"}

Returned(fn) == pc = "returned" /\ call.fn = fn

ParserReturned == pc = "returned" /\ call.fn \in Parsers

\* the schema of the mapper fn, as the prompt declares it
SchemaOf(fn) ==
    IF fn = "parse_llm_response" THEN Range(PersonaFields)
    ELSE IF fn = "parse_company_context" THEN Range(CompanyFields)
    ELSE Range(EmailFields)

LinesOf(content) == Split(content, "\n")

\* the line starts, after leading whitespace, with the label of f and ':'
ExactHeader(line, f) == StartsWith(Strip(line), Upper(f) \o ":")

\* the text before the first ':' is the label of f once case-normalized to
\* upper-snake (section 3 of the specification: keys are case-normalized)
NormalizedHeader(line, f) ==
    /\ Contains(Strip(line), ":")
    /\ Replace(Upper(Split1(Strip(line), ":")[1]), " ", "_") = Upper(f)

\* line is a header line of field f for the mapper fn
IsHeader(fn, line, f) ==
    IF fn = "parse_company_context" THEN NormalizedHeader(line, f)
    ELSE ExactHeader(line, f)

\* line is a header line of some field of the mapper's schema
IsAnyHeader(fn, line) == \E g \in SchemaOf(fn) : IsHeader(fn, line, g)

\* the text after the first ':' of a header line, trimmed
Trailing(line) == Strip(Split1(Strip(line), ":")[2])

PlaceholderNames == {"not publicly available", "n/a", "unknown"}

IsPlaceholderName(s) == Lower(Strip(s)) \in PlaceholderNames

\* the greeting substitution leaves the text s as it is
NoSubstitution(s) ==
    call.fn = "parse_email_sequence" =>
        (call.greeting = "[First Name]" \/ ~Contains(s, "[First Name]"))

-----------------------------------------------------------------------------
(* Properties of the three parsers *)

C2_TrailingTextIsValue ==
    ParserReturned =>
        LET ls == LinesOf(call.content) IN
        \A f \in SchemaOf(call.fn), i \in 1..Len(ls) :
            ( /\ IsHeader(call.fn, ls[i], f)
              /\ Trailing(ls[i]) # ""
              /\ (i = Len(ls) \/ IsAnyHeader(call.fn, ls[i + 1]))
              /\ \A j \in (i + 1)..Len(ls) : ~IsHeader(call.fn, ls[j], f)
              /\ ~(f = "name" /\ IsPlaceholderName(Trailing(ls[i])))
              /\ NoSubstitution(Trailing(ls[i])) )
            => ret[f] = Str(Trailing(ls[i]))

\* C3: when the same label heads two lines with different values, the field
\* holds the value of the second one (for a name, None when the second value
\* is a placeholder name).
C3_SecondOccurrenceWins ==
    ParserReturned =>
        LET ls == LinesOf(call.content) IN
        \A f \in SchemaOf(call.fn), i, j \in 1..Len(ls) :
            ( /\ i < j
              /\ IsHeader(call.fn, ls[i], f)
              /\ IsHeader(call.fn, ls[j], f)
              /\ \A k \in 1..Len(ls) : IsHeader(call.fn, ls[k], f) => k \in {i, j}
              /\ Trailing(ls[i]) # ""
              /\ Trailing(ls[j]) # ""
              /\ Trailing(ls[i]) # Trailing(ls[j])
              /\ (j = Len(ls) \/ IsAnyHeader(call.fn, ls[j + 1]))
              /\ NoSubstitution(Trailing(ls[j])) )
            => ret[f] = IF f = "name" /\ IsPlaceholderName(Trailing(ls[j]))
                        THEN None ELSE Str(Trailing(ls[j]))

\* C4: parsing the canonical serialization of a fully-populated record gives
\* back the record, for the persona, company-context and email schemas.
C4_RoundTrip ==
    /\ Returned("parse_llm_response") =>
          \A rec \in PersonaRecords :
              call.content = SerializedPersona[rec] =>
                  \A f \in DOMAIN rec : ret[f] = Str(rec[f])
    /\ Returned("parse_company_context") =>
          \A rec \in CompanyRecords :
              call.content = SerializedCompany[rec] =>
                  \A f \in DOMAIN rec : ret[f] = Str(rec[f])
    /\ Returned("parse_email_sequence") =>
          \A rec \in EmailRecords :
              call.content = SerializedEmail[rec] =>
                  \A f \in DOMAIN rec : ret[f] = Str(rec[f])

\* C10: the returned name is never a placeholder name ("not publicly
\* available", "n/a", "unknown" once lowercased and trimmed), and a text
\* whose NAME line (the last one, when there are several) carries such a
\* value in any letter case yields name None.
C10_NoPlaceholderName ==
    Returned("parse_llm_response") =>
        LET ls == LinesOf(call.content) IN
        /\ ret["name"] # None => ~IsPlaceholderName(Val(ret["name"]))
        /\ \A i \in 1..Len(ls) :
              ( /\ ExactHeader(ls[i], "name")
                /\ IsPlaceholderName(Trailing(ls[i]))
                /\ \A j \in (i + 1)..Len(ls) : ~ExactHeader(ls[j], "name") )
              => ret["name"] = None

\* C11: after parse_email_sequence every occurrence of "[First Name]" in
\* every parsed field value is replaced by the greeting; with the greeting
\* "[First Name]" the parsed values come back unchanged; unset fields stay
\* unset.
C11_GreetingSubstituted ==
    Returned("parse_email_sequence") =>
        LET parsed == EmailParsed(call.content) IN
        \A f \in Range(EmailFields) :
            /\ parsed[f] = None => ret[f] = None
            /\ parsed[f] # None =>
                  ret[f] = Str(Replace(Val(parsed[f]), "[First Name]", call.greeting))
            /\ call.greeting = "[First Name]" => ret[f] = parsed[f]
            /\ (ret[f] # None /\ ~Contains(call.greeting, "[First Name]"))
                  => ~Contains(Val(ret[f]), "[First Name]")

\* a body with the token twice and a subject whose continuation line holds
\* it, parsed with the greeting "Jordan"
C11_Witness ==
    /\ Returned("parse_email_sequence")
    /\ call.greeting = "Jordan"
    /\ call.content = "EMAIL1_SUBJECT: Quick idea\nSaw the launch, [First Name].\nEMAIL1_BODY: Hi [First Name], yes [First Name]"
    /\ ret["email1_body"] = Str("Hi Jordan, yes Jordan")
    /\ ret["email1_subject"] = Str("Saw the launch, Jordan.")
    /\ ret["email2_body"] = None

-----------------------------------------------------------------------------
(* Properties of extract_why_now_triggers *)

\* the snippets handed to the call, none when research_data lacks the key
SnippetsOf(research_data) ==
    IF research_data = <<>> THEN <<>> ELSE research_data["all_snippets"]

\* the lowercased concatenation of the first 5 snippets
FirstFiveText(snippets) ==
    Lower(Join([i \in 1..(IF Len(snippets) < 5 THEN Len(snippets) ELSE 5) |->
                    snippets[i]], " "))

HasKeyword(keywords, text) == \E k \in keywords : Contains(text, k)

FundingWords ==
    {"funding", "raised", "investment", "series", "funded", "million", "billion", "$"}

HiringWords ==
    {"hiring", "expanding", "growing", "team", "openings", "jobs", "recruiting"}

LaunchWords ==
    {"launch", "partnership", "announces", "introduces", "new product", "release"}

\* the three category templates in priority order
Templates(company) ==
    << company \o " has recent funding activity indicating growth and investment in new solutions",
       "Active hiring and team expansion at " \o company
         \o " suggests scaling and infrastructure needs",
       "Recent product launches or partnerships at " \o company
         \o " indicate active development" >>

Fallback(company) ==
    << "Research " \o company
         \o "'s recent funding rounds, hiring activity, or expansion plans",
       "Identify recent product launches, partnerships, or strategic initiatives at "
         \o company,
       "Review " \o company
         \o "'s growth trajectory and infrastructure scaling needs" >>

\* the items of list at the positions in S, in the order of the list
Pick(list, S) ==
    LET F[i \in 0..Len(list)] ==
            IF i = 0 THEN <<>>
            ELSE IF i \in S THEN Append(F[i - 1], list[i]) ELSE F[i - 1]
    IN F[Len(list)]

\* C5: the result is a list of at least 1 and at most 3 strings, whatever
\* the company and the research data (all_snippets missing or empty too).
C5_OneToThreeTriggers ==
    Returned("extract_why_now_triggers") =>
        /\ Len(ret) >= 1
        /\ Len(ret) <= 3
        /\ \A i \in 1..Len(ret) : Len(ret[i]) > 0

\* research_data without all_snippets: the three fallback prompts come back
C5_Witness ==
    /\ Returned("extract_why_now_triggers")
    /\ call.research_data = <<>>
    /\ Len(ret) = 3

\* C6: detected triggers come in the order funding, hiring/expansion,
\* launch/partnership, each at most once, and when a funding keyword is in
\* the lowercased text of the first 5 snippets the first trigger is the
\* funding template.
C6_PriorityOrder ==
    Returned("extract_why_now_triggers") =>
        LET text == FirstFiveText(SnippetsOf(call.research_data)) IN
        /\ ret # Fallback(call.company) =>
              \E S \in SUBSET {1, 2, 3} : ret = Pick(Templates(call.company), S)
        /\ HasKeyword(FundingWords, text) => ret[1] = Templates(call.company)[1]

\* hiring text before funding text in the snippets: funding still comes first
C6_Witness ==
    /\ Returned("extract_why_now_triggers")
    /\ Len(SnippetsOf(call.research_data)) >= 2
    /\ HasKeyword(HiringWords, Lower(SnippetsOf(call.research_data)[1]))
    /\ ~HasKeyword(FundingWords, Lower(SnippetsOf(call.research_data)[1]))
    /\ HasKeyword(FundingWords, Lower(SnippetsOf(call.research_data)[2]))
    /\ Len(ret) = 2
    /\ ret[1] = Templates(call.company)[1]
    /\ ret[2] = Templates(call.company)[2]

\* C7: the result is the fallback list exactly when there are no snippets or
\* no keyword of any category is in the lowercased text of the first 5
\* snippets; later snippets do not matter, and a result holds fallback
\* strings only or template strings only.
C7_FallbackExactly ==
    Returned("extract_why_now_triggers") =>
        LET snippets == SnippetsOf(call.research_data)
            text     == FirstFiveText(snippets)
            S        == {c \in {1, 2, 3} :
                            HasKeyword(<<FundingWords, HiringWords, LaunchWords>>[c],
                                       text)}
        IN
        /\ ret = Fallback(call.company) <=> (snippets = <<>> \/ S = {})
        /\ ret # Fallback(call.company) => ret = Pick(Templates(call.company), S)
        /\ Range(ret) \cap Range(Fallback(call.company)) # {}
              => Range(ret) \cap Range(Templates(call.company)) = {}

\* six snippets, a funding keyword in the sixth only: the fallback list
C7_Witness ==
    /\ Returned("extract_why_now_triggers")
    /\ Len(SnippetsOf(call.research_data)) = 6
    /\ HasKeyword(FundingWords, Lower(SnippetsOf(call.research_data)[6]))
    /\ ret = Fallback(call.company)

-----------------------------------------------------------------------------
(* Properties of get_persona_pain_points *)

CategoryKeys == {"cto", "vp engineering", "vp sales"}

\* C8: every persona label, "" included, gets exactly 5 strings, and when no
\* category key is in the lowercased label each of them contains the label
\* as given.
C8_FivePainPoints ==
    Returned("get_persona_pain_points") =>
        /\ Len(ret) = 5
        /\ (\A k \in CategoryKeys : ~Contains(Lower(call.persona), k))
              => \A i \in 1..5 : Contains(ret[i], call.persona)

\* a label with capitals that matches no category
C8_Witness ==
    /\ Returned("get_persona_pain_points")
    /\ call.persona = "Senior Something Else"
    /\ ret[3] = "Budget and ROI concerns facing Senior Something Elses"

CtoList ==
    << "Balancing technical debt with innovation and new feature development",
       "Scaling infrastructure and engineering teams while maintaining code quality",
       "Ensuring security and compliance without slowing down development velocity",
       "Managing vendor relationships and tool sprawl across engineering stack",
       "Attracting and retaining top engineering talent in competitive market" >>

GenericList(persona) ==
    << "Common " \o persona \o " challenges around strategic decision-making",
       persona \o " pain points related to team and resource management",
       "Budget and ROI concerns facing " \o persona \o "s",
       persona \o " frustrations with current tools and processes",
       "Business impact of unresolved challenges for " \o persona \o " role" >>

\* C9: the keys are tried in the order "cto", "vp engineering", "vp sales" on
\* the lowercased label and the first one contained wins; a label containing
\* "cto" anywhere gets the CTO list in its authored order, and only a label
\* containing none of the keys gets the generic list.
C9_FirstKeyWins ==
    Returned("get_persona_pain_points") =>
        LET label == Lower(call.persona) IN
        /\ Contains(label, "cto") => ret = CtoList
        /\ (~Contains(label, "cto") /\ Contains(label, "vp engineering"))
              => ret[1] = "Optimizing team productivity and delivery velocity"
        /\ (~Contains(label, "cto") /\ ~Contains(label, "vp engineering")
              /\ Contains(label, "vp sales"))
              => ret[1] = "Accelerating sales cycle and improving win rates"
        /\ ret = GenericList(call.persona)
              => \A k \in CategoryKeys : ~Contains(label, k)

\* a label holding both "cto" and "vp engineering", "cto" coming second
C9_Witness ==
    /\ Returned("get_persona_pain_points")
    /\ call.persona = "VP Engineering and acting CTO"
    /\ ret = CtoList
-----------------------------------------------------------------------------
(* Provider-call properties *)

ProviderCalls ==
    { "research_persona_with_llm", "research_company_context_with_llm",
      "generate_email_sequence_with_llm" }

KnownProvider(p) == p \in {"openai", "anthropic"}

\* the collaborator failed: no client, unknown provider, the call raised,
\* or the content it returned cannot be parsed
UpstreamFailed(c) ==
    \/ ~KnownProvider(c.provider)
    \/ ~c.client
    \/ c.reply.kind = "raise"
    \/ c.reply.content = None

\* the name the executives heuristic draws from the company context of the
\* call, None when the context is an error record
ContextName(c) ==
    LET ctx == research_company_context_with_llm(c.provider, c.client,
                                                 c.company_reply)
    IN IF "error" \in DOMAIN ctx THEN None
       ELSE CopyCompanyContext(EnhancedInit, ctx, c.persona)["persona_name"]

DirectName(c) ==
    Get(research_persona_with_llm(c.provider, c.client, c.persona_reply), "name")

\* C12: a non-empty name drawn from the executives list is the final
\* persona_name, whatever the direct persona query answers; the direct
\* query's name is used only when the company context yielded no name.
C12_ContextNameWins ==
    (Returned("enhance_brief_with_llm") /\ call.use_persona_research) =>
        /\ Truthy(ContextName(call)) => ret["persona_name"] = ContextName(call)
        /\ ~Truthy(ContextName(call)) =>
              ret["persona_name"] = IF Truthy(DirectName(call))
                                    THEN DirectName(call) ELSE ContextName(call)

C12_Witness ==
    /\ Returned("enhance_brief_with_llm")
    /\ call.use_persona_research /\ call.client /\ call.provider = "openai"
    /\ call.persona = "CTO"
    /\ call.company_reply = Content(Str("EXECUTIVES: Bob Lee, CTO"))
    /\ DirectName(call) = Str("Sam Roe")
    /\ ret["persona_name"] = Str("Bob Lee")

\* C13: each of the three provider calls returns, never raises, and when
\* the collaborator failed the record it returns carries an error entry.
C13_FailureIsData ==
    call.fn \in ProviderCalls =>
        /\ pc = "returned"
        /\ UpstreamFailed(call) =>
              ("error" \in DOMAIN ret /\ Truthy(ret["error"]))

C13_Witness ==
    /\ Returned("research_company_context_with_llm")
    /\ call.provider = "openai" /\ call.client
    /\ call.reply = Content(None)
    /\ ret = [error |-> Str("OpenAI API error: 'NoneType' object has no attribute 'split'")]

\* C17: the name drawn from an executives list comes from the entry of the
\* response that mentions the requested persona.
C17_NameFromPersonaEntry ==
    (/\ Returned("enhance_brief_with_llm")
     /\ call.use_persona_research
     /\ Truthy(ContextName(call))) =>
        LET entries == Split(Val(call.company_reply.content), "\n") IN
        \E i \in DOMAIN entries :
            /\ Contains(Lower(entries[i]), Lower(call.persona))
            /\ Contains(entries[i], Val(ret["persona_name"]))

\* C18: a response the provider returned is never taken for a failure: its
\* record has no error entry and its raw_response is the text parsed.
C18_SuccessIsNotFailure ==
    (Returned("research_company_context_with_llm") /\ ~UpstreamFailed(call)) =>
        /\ "error" \notin DOMAIN ret
        /\ ret["raw_response"] = call.reply.content
-----------------------------------------------------------------------------
(* Properties of the line state machine *)

\* a line `X: ...` with a non-empty label X
HeaderLike(line) ==
    /\ Contains(Strip(line), ":")
    /\ Strip(Split1(Strip(line), ":")[1]) # ""

\* the separator the mapper joins continuation lines with
Separator(fn) == IF fn = "parse_company_context" THEN " " ELSE "\n"

\* index of the first header line after line i, Len(ls) + 1 when none
NextHeader(fn, ls, i) ==
    LET later == {k \in (i + 1)..Len(ls) : IsAnyHeader(fn, ls[k])} IN
    IF later = {} THEN Len(ls) + 1
    ELSE CHOOSE k \in later : \A m \in later : k <= m

RECURSIVE NonEmptyStripped(_)
NonEmptyStripped(ls) ==
    IF ls = <<>> THEN <<>>
    ELSE IF Strip(Head(ls)) = "" THEN NonEmptyStripped(Tail(ls))
    ELSE <<Strip(Head(ls))>> \o NonEmptyStripped(Tail(ls))

\* the value of the two-state machine for the field headed by line i: the
\* trailing text of the header, then the continuation lines, joined
Accumulated(fn, ls, i) ==
    Strip(Join(NonEmptyStripped(
                   <<Trailing(ls[i])>>
                   \o SubSeq(ls, i + 1, NextHeader(fn, ls, i) - 1)),
               Separator(fn)))

\* C14: a header-like line whose label the mapper does not recognize adds no
\* key to the record and, directly after the header line of a field, is part
\* of that field's value.
C14_UnrecognizedIsContinuation ==
    ParserReturned =>
        LET ls == LinesOf(call.content) IN
        /\ DOMAIN ret \subseteq SchemaOf(call.fn) \cup {"raw_response"}
        /\ \A f \in SchemaOf(call.fn), i \in 1..(Len(ls) - 1) :
              ( /\ IsHeader(call.fn, ls[i], f)
                /\ HeaderLike(ls[i + 1])
                /\ ~IsAnyHeader(call.fn, ls[i + 1])
                /\ \A j \in (i + 1)..Len(ls) : ~IsHeader(call.fn, ls[j], f)
                /\ NoSubstitution(ls[i + 1]) )
              => /\ ret[f] # None
                 /\ Contains(Val(ret[f]), Strip(ls[i + 1]))

\* C15: the value of a field is the trailing text of its last header line
\* followed by the non-empty lines up to the next header line or the end of
\* the text, in order, joined by the mapper's separator.
C15_HeaderThenContinuation ==
    ParserReturned =>
        LET ls == LinesOf(call.content) IN
        \A f \in SchemaOf(call.fn), i \in 1..Len(ls) :
            ( /\ IsHeader(call.fn, ls[i], f)
              /\ \A j \in (i + 1)..Len(ls) : ~IsHeader(call.fn, ls[j], f)
              /\ Accumulated(call.fn, ls, i) # ""
              /\ ~(f = "name" /\ IsPlaceholderName(Trailing(ls[i])))
              /\ NoSubstitution(Accumulated(call.fn, ls, i)) )
            => ret[f] = Str(Accumulated(call.fn, ls, i))

\* C16: in the company-context mapper an indented line containing ':' that
\* follows the header line of a field is in that field's value and adds no
\* key of its own.
C16_IndentedIsContinuation ==
    Returned("parse_company_context") =>
        LET ls == LinesOf(call.content) IN
        \A f \in SchemaOf(call.fn), i \in 1..(Len(ls) - 1) :
            ( /\ IsHeader(call.fn, ls[i], f)
              /\ ~StartsWith(ls[i], " ")
              /\ StartsWith(ls[i + 1], " ")
              /\ Contains(ls[i + 1], ":")
              /\ \A j \in (i + 1)..Len(ls) : ~IsHeader(call.fn, ls[j], f) )
            => /\ ret[f] # None
               /\ Contains(Val(ret[f]), Strip(ls[i + 1]))
               /\ Lower(Strip(Split1(Strip(ls[i + 1]), ":")[1])) \notin DOMAIN ret
-----------------------------------------------------------------------------
(* Properties of the versioned output *)

DecimalText ==
    << "1", "2", "3", "4", "5", "6", "7", "8", "9", "10", "11", "12", "13",
       "14", "15", "16", "17", "18", "19", "20" >>

\* the file of version n of the company directory name
VersionFile(name, n) ==
    "outputs/" \o name \o "/" \o name \o "-v" \o DecimalText[n] \o ".md"

\* the N of the files <name>-v<N>.md of the tree files
ExistingVersions(files, name) ==
    {n \in DOMAIN DecimalText : VersionFile(name, n) \in DOMAIN files}

\* the step is a run of main that wrote its brief
MainWrote == pc' = "returned" /\ call'.fn = "main"

\* C19: a run that writes its brief writes version 1 when the company
\* directory holds no version file and one more than the largest version
\* otherwise, so above every version there is; the file is new, and every
\* file there was before is still there with the same text.
C19_NeverOverwrites ==
    [][ /\ \A p \in DOMAIN fs : p \in DOMAIN fs' /\ fs'[p] = fs[p]
        /\ MainWrote =>
              \A name \in {sanitize_filename(call'.company)} :
              \A existing \in {ExistingVersions(fs, name)} :
              \A version \in {IF existing = {} THEN 1 ELSE SetMax(existing) + 1} :
              \A file \in {VersionFile(name, version)} :
                 /\ ret' = Str(file)
                 /\ file \notin DOMAIN fs
                 /\ DOMAIN fs' = DOMAIN fs \cup {file}
                 /\ fs'[file] = Val(call'.brief.content)
                 /\ \A n \in existing : n < version ]_vars

\* versions 9 (earlier), 10 and 11 of Acme-Corp, written under two spellings
\* of the company, each with its own text
C19_Witness ==
    /\ Returned("main")
    /\ call.company = " Acme - Corp!"
    /\ ret = Str("outputs/Acme-Corp/Acme-Corp-v11.md")
    /\ DOMAIN fs = { "outputs/Acme-Corp/Acme-Corp-v3.md",
                     "outputs/Acme-Corp/Acme-Corp-v9.md",
                     "outputs/Acme-Corp/Acme-Corp-v10.md",
                     "outputs/Acme-Corp/Acme-Corp-v11.md" }
    /\ fs["outputs/Acme-Corp/Acme-Corp-v9.md"] = "# Account Brief: earlier"
    /\ fs["outputs/Acme-Corp/Acme-Corp-v10.md"] = "# Account Brief: A"
    /\ fs["outputs/Acme-Corp/Acme-Corp-v11.md"] = "# Account Brief: B"

====
